---- MODULE Spec2Model ----
(***************************************************************************)
(* A model of the Timeline Ingestion Engine:                               *)
(*   src/app/scraper.py   TwitterScraperPlaywright (gateway, extraction,   *)
(*                        collection loop, run orchestrator)               *)
(*   src/scheduler.py     ScraperScheduler (jittered scheduling loop)      *)
(*   src/run_scraper.py   the single-invocation entry point                *)
(*                                                                         *)
(* Strings are modelled as sequences of tokens.  The tokens "/" and "?"    *)
(* are the two separator characters the code splits on; every other token  *)
(* is a run of characters holding neither, so str.split and the substring  *)
(* test '/status/' in url act on token sequences as they act on the text.  *)
(***************************************************************************)
EXTENDS Integers, Sequences, FiniteSets, TLC

\* ------------------------------------------------------------------ bounds

\* Post identifiers the page may render are IdTok[1] .. IdTok[MaxId].
MaxId == 2
\* Largest max_tweets the entry points are started with.
MaxTweets == 2
\* Runs after which the model stops following an unlimited scheduler, and the
\* largest max_runs it is started with.
MaxRunCount == 2
\* save_tweet calls followed by the gateway specification.
MaxCalls == 3
\* Path segments of the hrefs handed to the extraction specification.
MaxSegments == 4
\* Largest --interval, in minutes, the delay specification is started with.
MaxIntervalMinutes == 20
\* Number of steps into which the model divides the range of random().
UniformSteps == 4

\* ------------------------------------------------------- program constants

\* scraper.py line 205: max_scroll_attempts = 20
max_scroll_attempts == 20
\* scheduler.py line 125: --interval default, in minutes
DefaultIntervalMinutes == 10

\* Python's None, as a value that is no token sequence of any URL.
None == <<"<None>">>

\* ------------------------------------------------------------ str helpers

IsPrefix(p, s) == Len(p) <= Len(s) /\ SubSeq(s, 1, Len(p)) = p

\* sep in s
Contains(s, sep) == \E i \in 1..Len(s) : IsPrefix(sep, SubSeq(s, i, Len(s)))

\* s.split(sep): the parts between the leftmost non-overlapping occurrences.
RECURSIVE Split(_, _)
Split(s, sep) ==
    IF Contains(s, sep)
    THEN LET i == CHOOSE k \in 1..Len(s) :
                    /\ IsPrefix(sep, SubSeq(s, k, Len(s)))
                    /\ \A j \in 1..(k - 1) : ~IsPrefix(sep, SubSeq(s, j, Len(s)))
         IN  <<SubSeq(s, 1, i - 1)>> \o Split(SubSeq(s, i + Len(sep), Len(s)), sep)
    ELSE <<s>>

\* parts.index(x): the first position holding x, 0 when there is none
\* (where Python raises ValueError).
IndexOf(parts, x) ==
    IF \E i \in 1..Len(parts) : parts[i] = x
    THEN CHOOSE i \in 1..Len(parts) :
            parts[i] = x /\ \A j \in 1..(i - 1) : parts[j] # x
    ELSE 0

Last(s) == s[Len(s)]

StatusMarker == <<"/", "status", "/">>

\* ------------------------------------------------------------- extraction

\* Mutant of extract_tweet_id_from_url: the query string is not cut off.
extract_tweet_id_from_url_NoQueryCut(url) ==
    IF Contains(url, StatusMarker)
    THEN Split(Last(Split(url, StatusMarker)), <<"/">>)[1]
    ELSE None

\* extract_tweet_id_from_url: url.split('/status/')[-1].split('?')[0].split('/')[0]
extract_tweet_id_from_url(url) ==
    IF Contains(url, StatusMarker)
    THEN Split(Split(Last(Split(url, StatusMarker)), <<"?">>)[1], <<"/">>)[1]
    ELSE None

\* extract_author_from_url: the part after the part 'x.com', else after the
\* part 'twitter.com'; ValueError and IndexError are caught and give None.
extract_author_from_url(url) ==
    IF Contains(url, StatusMarker)
    THEN LET parts == Split(url, <<"/">>)
             host  == IF IndexOf(parts, <<"x.com">>) # 0
                      THEN IndexOf(parts, <<"x.com">>)
                      ELSE IndexOf(parts, <<"twitter.com">>)
         IN  IF host = 0 \/ host + 1 > Len(parts) THEN None ELSE parts[host + 1]
    ELSE None

\* `not tweet_id`: None and the empty string are both falsy.
Falsy(tweet_id) == tweet_id = None \/ tweet_id = << >>

\* Lines 224-225: a relative href is prefixed with https://x.com
AbsoluteUrl(href) ==
    IF Len(href) > 0 /\ href[1] \in {"https:", "http:"}
    THEN href
    ELSE <<"https:", "/", "/", "x.com">> \o href

\* ------------------------------------------------------- the rendered page

IdTok == <<"1", "2", "3", "4", "5">>

\* The tweet_id values the page can give rise to.
TweetIds == {<<IdTok[i]>> : i \in 1..MaxId}

\* hrefs of the anchors the page renders: a relative permalink per post, the
\* first post also under its legacy absolute permalink with a query string,
\* and a permalink that carries no identifier after the marker.
RelHref(i) == <<"/", "alice", "/", "status", "/", IdTok[i]>>
LegacyHref == <<"https:", "/", "/", "twitter.com", "/", "bob", "/", "status", "/",
                IdTok[1], "?", "s=20">>
NoIdHref == <<"/", "alice", "/", "status", "/">>
Hrefs == {RelHref(i) : i \in 1..MaxId} \cup {LegacyHref, NoIdHref}

\* One article element as query_selector_all hands it over:
\*   kind "nolink"   query_selector('a[href*="/status/"]') finds nothing
\*   kind "detached" a call on the element raises before the id is known
\*   kind "post"     the anchor is found and carries href; textOk says whether
\*                   inner_text() returns (TRUE) or raises (FALSE)
Elements ==
    {[kind |-> k, href |-> NoIdHref, textOk |-> TRUE] : k \in {"nolink", "detached"}}
    \cup {[kind |-> "post", href |-> h, textOk |-> b] : h \in Hrefs, b \in BOOLEAN}

\* The text inner_text() returns for an element, kept verbatim as content.
InnerText(el) == <<"text">>

\* Lines 223-228 and 242 on each href of the page: the absolute url, the
\* identifier and the author extracted from it.
ExtractFrom(h) ==
    [url |-> AbsoluteUrl(h),
     tweet_id |-> extract_tweet_id_from_url(AbsoluteUrl(h)),
     author |-> extract_author_from_url(AbsoluteUrl(h))]

Extracted == [h \in Hrefs |-> ExtractFrom(h)]

\* The element is a post whose identifier and text can both be read.
Extractable(el) ==
    /\ el.kind = "post"
    /\ ~Falsy(Extracted[el.href].tweet_id)
    /\ el.textOk

\* ---------------------------------------------------- dedup/persist gateway

EmptyStore == [t \in TweetIds |-> 0]

\* Mutant of is_duplicate: a failed query is answered True.
is_duplicate_FailedQueryTrue(st, tweet_id, queryFails) ==
    IF queryFails THEN TRUE ELSE st[tweet_id] > 0

\* is_duplicate: a failed query is logged and answered False.
is_duplicate(st, tweet_id, queryFails) ==
    IF queryFails THEN FALSE ELSE st[tweet_id] > 0

\* Mutant of StoreInsert: a table without the uniqueness constraint.
StoreInsert_NoConstraint(st, tweet_id, writeFails) ==
    IF writeFails THEN [store |-> st, error |-> "other"]
    ELSE [store |-> [st EXCEPT ![tweet_id] = @ + 1], error |-> "none"]

\* The store's insert under its uniqueness constraint on the identifier:
\* the row is added, or the write is refused with a uniqueness violation, or
\* it fails for another reason (writeFails).
StoreInsert(st, tweet_id, writeFails) ==
    IF writeFails THEN [store |-> st, error |-> "other"]
    ELSE IF st[tweet_id] > 0 THEN [store |-> st, error |-> "unique"]
    ELSE [store |-> [st EXCEPT ![tweet_id] = @ + 1], error |-> "none"]

\* Line 81: 'duplicate' in str(e).lower() or 'unique' in str(e).lower()
MentionsDuplicate(error) == error = "unique"

\* Mutant of InsertOutcome: line 86 returns True.
InsertOutcome_FailureReturnsTrue(error) ==
    IF error = "none" THEN [ret |-> TRUE, branch |-> "saved"]
    ELSE IF MentionsDuplicate(error) THEN [ret |-> FALSE, branch |-> "skip_unique"]
    ELSE [ret |-> TRUE, branch |-> "failed"]

\* Mutant of InsertOutcome: line 83 returns True.
InsertOutcome_UniqueReturnsTrue(error) ==
    IF error = "none" \/ MentionsDuplicate(error)
    THEN [ret |-> TRUE, branch |-> "saved"]
    ELSE [ret |-> FALSE, branch |-> "failed"]

\* Lines 75-86: what save_tweet returns after the insert, by the error the
\* insert raised ("none": it returned).
InsertOutcome(error) ==
    IF error = "none" THEN [ret |-> TRUE, branch |-> "saved"]
    ELSE IF MentionsDuplicate(error) THEN [ret |-> FALSE, branch |-> "skip_unique"]
    ELSE [ret |-> FALSE, branch |-> "failed"]

\* save_tweet: the return value, the return statement taken (branch), whether
\* the insert was attempted, and the store afterwards.
save_tweet(st, tweet_id, queryFails, writeFails) ==
    IF is_duplicate(st, tweet_id, queryFails)
    THEN [store |-> st, ret |-> FALSE, branch |-> "skip_precheck",
          attempted |-> FALSE, tweet_id |-> tweet_id, queryFailed |-> queryFails,
          rowsBefore |-> st[tweet_id]]
    ELSE LET w == StoreInsert(st, tweet_id, writeFails)
         IN  [store |-> w.store,
              ret |-> InsertOutcome(w.error).ret,
              branch |-> InsertOutcome(w.error).branch,
              attempted |-> TRUE, tweet_id |-> tweet_id, queryFailed |-> queryFails,
              rowsBefore |-> st[tweet_id]]

\* The log entry of one save_tweet call (the store itself is not logged).
LogEntry(r) == [tweet_id |-> r.tweet_id, queryFailed |-> r.queryFailed,
                rowsBefore |-> r.rowsBefore, rowsAfter |-> r.store[r.tweet_id],
                attempted |-> r.attempted, branch |-> r.branch, ret |-> r.ret]

\* ------------------------------------------------------------------- state

VARIABLES
    mode,                \* "single" (run_scraper.main) or "scheduler"
    max_runs,            \* << >> for None, <<n>> for the integer n
    max_tweets,
    base_interval,       \* seconds
    run_count,
    interval,            \* the delay drawn for the sleep in progress, else 0
    pc,                  \* the position of the single thread of control
    playwright,          \* self.playwright: "none", "started", "stopped"
    context,             \* self.context: "none", "open", "closed"
    tweets_data,
    processed_tweet_ids,
    scroll_attempts,
    saveIdx,             \* records of tweets handed to save_tweet so far
    saved_count,
    skipped_count,
    result,              \* << >> for no result, <<r>> for the returned dict
    exc,                 \* the exception in flight: "none", "Exception", "KeyboardInterrupt"
    store,               \* rows per tweet_id in timeline_tweets
    raised,              \* history: what was raised inside scrape_and_save's try body
    cleanupInterrupted,  \* history: an interrupt arrived inside the finally block
    rendered,            \* history: identifiers of extractable posts iterated
    dupSeen,             \* history: an element was skipped as already processed
    scrollCalls,         \* history: smooth scrolls issued in this collection
    scrollsAfterTarget,  \* history: scrolls issued with max_tweets records held
    saveLog,             \* history: the save_tweet calls of this run, in order
    completed_runs,      \* history: run_once calls that have returned
    anchor_href,      \* the href of the anchor handed to the extraction step
                         \* (extraction specification only)
    lastOutcome          \* history: how the run just finished ended; "none" before
                         \* the first run and from the start of the next

schedVars == <<mode, max_runs, max_tweets, base_interval, run_count, interval>>
browserVars == <<playwright, context>>
collectVars == <<tweets_data, processed_tweet_ids, scroll_attempts,
                 rendered, dupSeen, scrollCalls, scrollsAfterTarget>>
persistVars == <<saveIdx, saved_count, skipped_count, result>>
excVars == <<exc, raised, cleanupInterrupted>>
vars == <<schedVars, pc, browserVars, collectVars, persistVars, excVars,
          store, saveLog, lastOutcome, completed_runs, anchor_href>>

\* A freshly constructed scraper and the locals of a run not yet started.
FreshRun ==
    /\ playwright' = "none"
    /\ context' = "none"
    /\ tweets_data' = << >>
    /\ processed_tweet_ids' = {}
    /\ scroll_attempts' = 0
    /\ rendered' = {}
    /\ dupSeen' = FALSE
    /\ scrollCalls' = 0
    /\ scrollsAfterTarget' = 0
    /\ saveIdx' = 0
    /\ saved_count' = 0
    /\ skipped_count' = 0
    /\ result' = << >>
    /\ exc' = "none"
    /\ raised' = "none"
    /\ cleanupInterrupted' = FALSE
    /\ saveLog' = << >>

InitRun ==
    /\ playwright = "none"
    /\ context = "none"
    /\ tweets_data = << >>
    /\ processed_tweet_ids = {}
    /\ scroll_attempts = 0
    /\ rendered = {}
    /\ dupSeen = FALSE
    /\ scrollCalls = 0
    /\ scrollsAfterTarget = 0
    /\ saveIdx = 0
    /\ saved_count = 0
    /\ skipped_count = 0
    /\ result = << >>
    /\ exc = "none"
    /\ raised = "none"
    /\ cleanupInterrupted = FALSE
    /\ saveLog = << >>

\* scheduler.main / run_scraper.main: the command line sets the parameters.
Init ==
    /\ mode \in {"single", "scheduler"}
    /\ max_runs \in (IF mode = "scheduler"
                     THEN {<< >>} \cup {<<n>> : n \in 0..MaxRunCount}
                     ELSE {<< >>})
    /\ max_tweets \in 0..MaxTweets
    /\ base_interval = DefaultIntervalMinutes * 60
    /\ run_count = 0
    /\ interval = 0
    /\ pc = "start"
    /\ store = EmptyStore
    /\ lastOutcome = "none"
    /\ completed_runs = 0
    /\ anchor_href = << >>
    /\ InitRun

\* ------------------------------------------------- callers of a run's result

\* `if max_runs and ...` (scheduler.py line 88): None and 0 are both falsy.
Truthy(mr) == mr # << >> /\ mr[1] # 0

\* scheduler.py lines 88-90
MaxRunsReached == Truthy(max_runs) /\ run_count >= max_runs[1]

\* Mutant of start_except: start() has no handler for the interrupt.
start_except_NoHandler(e) == "crashed"

\* start() lines 85-112: where control goes when e leaves the loop body.
\* `except KeyboardInterrupt` logs the shutdown and start() returns; anything
\* else leaves start().
start_except(e) ==
    IF e = "KeyboardInterrupt" THEN "shutdown" ELSE "crashed"

\* Mutant of run_once_except: a bare `except:` that also catches the interrupt.
run_once_except_CatchAll(e) == "delay"

\* Mutant of run_once_except: no handler, the exception leaves start().
run_once_except_NoHandler(e) ==
    IF e = "KeyboardInterrupt" THEN "shutdown"
    ELSE IF e = "Exception" THEN "crashed" ELSE "delay"

\* run_once (scheduler.py lines 40-66) seen from start(): where control goes
\* when the try body ends with e in flight.  `except Exception` catches
\* Exception and returns False; a KeyboardInterrupt passes it and is caught by
\* start() (line 108).
run_once_except(e) ==
    IF e = "KeyboardInterrupt" THEN start_except(e) ELSE "delay"

\* run_scraper.main (lines 14-31) catches nothing.
main_except(e) ==
    IF e = "none" THEN "completed" ELSE "crashed"

AfterRun(m, e) ==
    IF m = "scheduler" THEN run_once_except(e) ELSE main_except(e)

\* run_once returns (True at line 62, False at line 66) rather than being left
\* by an exception.
RunOnceReturns(m, e) == m = "scheduler" /\ run_once_except(e) = "delay"

RunOutcome(e) ==
    IF e = "none" THEN "ok"
    ELSE IF e = "Exception" THEN "failed" ELSE "interrupted"

\* Mutant of scrape_and_save_except: the handler logs and does not re-raise.
scrape_and_save_except_Swallow(e) == IF e = "Exception" THEN "none" ELSE e

\* scrape_and_save lines 350-352: `except Exception` logs and re-raises, and a
\* KeyboardInterrupt is not an Exception: either way e stays in flight.
scrape_and_save_except(e) == e

\* The locals of collect_tweets die when it is left.
DiscardCollectLocals ==
    /\ processed_tweet_ids' = {}
    /\ scroll_attempts' = 0
    /\ rendered' = {}
    /\ dupSeen' = FALSE
    /\ scrollCalls' = 0
    /\ scrollsAfterTarget' = 0

\* An exception of the given kind leaves scrape_and_save's try body: the
\* frames below the handler are unwound and their locals die.
RaiseInTry(kind) ==
    /\ raised' = kind
    /\ exc' = scrape_and_save_except(kind)
    /\ pc' = "finally"
    /\ DiscardCollectLocals
    /\ tweets_data' = << >>
    /\ saveIdx' = 0
    /\ saved_count' = 0
    /\ skipped_count' = 0
    /\ result' = << >>
    /\ saveLog' = << >>
    /\ UNCHANGED cleanupInterrupted

\* ------------------------------------------------------------ the scheduler

\* start(), lines 88-90: the max-runs check ends the loop.
StopAtMaxRuns ==
    /\ mode = "scheduler"
    /\ pc = "start"
    /\ MaxRunsReached
    /\ pc' = "stopped"
    /\ UNCHANGED <<schedVars, browserVars, collectVars, persistVars, excVars,
                   store, saveLog, lastOutcome,
                   completed_runs, anchor_href>>

\* start() line 93 and run_once lines 41-47: count the run, then construct a
\* scraper of its own.
RunOnceBegin ==
    /\ mode = "scheduler"
    /\ pc = "start"
    /\ ~MaxRunsReached
    /\ run_count < MaxRunCount
    /\ run_count' = run_count + 1
    /\ pc' = "construct"
    /\ FreshRun
    /\ lastOutcome' = "none"
    /\ UNCHANGED <<mode, max_runs, max_tweets, base_interval, interval, store,
                   completed_runs, anchor_href>>

\* run_scraper.main lines 12-14
MainBegin ==
    /\ mode = "single"
    /\ pc = "start"
    /\ pc' = "construct"
    /\ UNCHANGED <<schedVars, browserVars, collectVars, persistVars, excVars,
                   store, saveLog, lastOutcome,
                   completed_runs, anchor_href>>

\* TwitterScraperPlaywright() : __init__ calls init_supabase, which raises when
\* the credentials are missing or the connection test fails.
Construct ==
    /\ pc = "construct"
    /\ \E outcome \in {"ok", "no_credentials", "unreachable"} :
          IF outcome = "ok"
          THEN pc' = "setup" /\ UNCHANGED <<lastOutcome, completed_runs>>
          ELSE /\ pc' = AfterRun(mode, "Exception")
               /\ lastOutcome' = "setup_failed"
               /\ completed_runs' = IF RunOnceReturns(mode, "Exception")
                                    THEN completed_runs + 1 ELSE completed_runs
    /\ UNCHANGED <<schedVars, browserVars, collectVars, persistVars, excVars,
                   store, saveLog, anchor_href>>

\* random.uniform(a, b) is a + (b - a) * random(), with random() in [0, 1]
\* once rounded; the model draws random() from the fractions k / UniformSteps.
uniform(a, b) == {a + ((b - a) * k) \div UniformSteps : k \in 0..UniformSteps}

\* Mutant of get_random_interval: the band is base -30% .. +30%.
get_random_interval_Wide(base) == uniform((base * 7) \div 10, (base * 13) \div 10)

\* get_random_interval, lines 33-36: min_interval = base * 0.8,
\* max_interval = base * 1.2, uniform(min_interval, max_interval).  base is a
\* whole number of minutes in seconds, so both ends are whole numbers.
get_random_interval(base) == uniform((base * 8) \div 10, (base * 12) \div 10)

\* start() lines 96-103
ComputeDelay ==
    /\ pc = "delay"
    /\ interval' \in get_random_interval(base_interval)
    /\ pc' = "sleep"
    /\ UNCHANGED <<mode, max_runs, max_tweets, base_interval, run_count,
                   browserVars, collectVars, persistVars, excVars,
                   store, saveLog, lastOutcome,
                   completed_runs, anchor_href>>

\* start() line 106: time.sleep(interval) returns.
Sleep ==
    /\ pc = "sleep"
    /\ pc' = "start"
    /\ interval' = 0
    /\ UNCHANGED <<mode, max_runs, max_tweets, base_interval, run_count,
                   browserVars, collectVars, persistVars, excVars,
                   store, saveLog, lastOutcome,
                   completed_runs, anchor_href>>

\* Ctrl+C outside scrape_and_save: while the scraper is constructed, while the
\* delay is computed, during the sleep.
InterruptOutsideRun ==
    /\ pc \in {"construct", "delay", "sleep"}
    /\ pc' = IF pc = "construct" THEN AfterRun(mode, "KeyboardInterrupt")
             ELSE start_except("KeyboardInterrupt")
    /\ lastOutcome' = IF pc = "construct" THEN "interrupted" ELSE lastOutcome
    /\ UNCHANGED <<schedVars, browserVars, collectVars, persistVars, excVars,
                   store, saveLog, completed_runs, anchor_href>>

\* --------------------------------------------------------- scrape_and_save

\* setup_browser, lines 103-134: sync_playwright().start(), then
\* launch_persistent_context, then the page and its init script.  Each may
\* raise (or be interrupted); the handler at 140-142 re-raises.
SetupBrowser ==
    /\ pc = "setup"
    /\ \/ /\ playwright' = "started"
          /\ context' = "open"
          /\ pc' = "navigate"
          /\ UNCHANGED <<collectVars, persistVars, excVars, saveLog>>
       \/ \E failsAt \in {"start", "launch", "page"},
             kind \in {"Exception", "KeyboardInterrupt"} :
             /\ playwright' = IF failsAt = "start" THEN "none" ELSE "started"
             /\ context' = IF failsAt = "page" THEN "open" ELSE "none"
             /\ RaiseInTry(kind)
    /\ UNCHANGED <<schedVars, store, lastOutcome,
                   completed_runs, anchor_href>>

\* collect_tweets lines 179-200: goto (a timeout is logged and tolerated), the
\* load wait, the login check with its fixed wait; page.url may raise.
Navigate ==
    /\ pc = "navigate"
    /\ \/ \E timedOut \in BOOLEAN, loginPage \in BOOLEAN :
             /\ pc' = "while"
             /\ UNCHANGED <<collectVars, persistVars, excVars, saveLog>>
       \/ RaiseInTry("Exception")
    /\ UNCHANGED <<schedVars, browserVars, store, lastOutcome,
                   completed_runs, anchor_href>>

\* Ctrl+C inside the try body of scrape_and_save, after the browser is set up.
InterruptInTry ==
    /\ pc \in {"navigate", "while", "for", "reading", "return", "persist"}
    /\ RaiseInTry("KeyboardInterrupt")
    /\ UNCHANGED <<schedVars, browserVars, store, lastOutcome,
                   completed_runs, anchor_href>>

\* ---------------------------------------------------------- collect_tweets

\* Line 207: the while condition.
LoopCondition(td, attempts, mt) ==
    Len(td) < mt /\ attempts < max_scroll_attempts

\* Mutant of ForBreak: the for loop never breaks.
ForBreak_Never(td, mt) == FALSE

\* Line 214: the break at the head of the for body.
ForBreak(td, mt) == Len(td) >= mt

\* Mutant of AlreadyProcessed: the seen set is not consulted.
AlreadyProcessed_Never(tweet_id, seen) == FALSE

\* Line 235: tweet_id in processed_tweet_ids
AlreadyProcessed(tweet_id, seen) == tweet_id \in seen

\* Line 266: the guard of the scroll.
ShouldScroll(td, mt) == Len(td) < mt

\* Lines 248-253
TweetRecord(tweet_id, el, url) ==
    [tweet_id |-> tweet_id, content |-> InnerText(el),
     author |-> Extracted[el.href].author, url |-> url]

\* Lines 217-263, the body of the for loop on one element: the record list
\* and the seen set afterwards.  Any exception in it is caught (261-263).
ProcessOne(td, seen, el) ==
    IF el.kind # "post"
    THEN [td |-> td, seen |-> seen]
    ELSE LET url == Extracted[el.href].url
             tweet_id == Extracted[el.href].tweet_id
         IN  IF Falsy(tweet_id) THEN [td |-> td, seen |-> seen]
             ELSE IF AlreadyProcessed(tweet_id, seen) THEN [td |-> td, seen |-> seen]
             ELSE IF ~el.textOk THEN [td |-> td, seen |-> seen \cup {tweet_id}]
             ELSE [td |-> Append(td, TweetRecord(tweet_id, el, url)),
                   seen |-> seen \cup {tweet_id}]

\* The element reaches line 235 and is skipped there.
SkippedAsSeen(seen, el) ==
    /\ el.kind = "post"
    /\ ~Falsy(Extracted[el.href].tweet_id)
    /\ AlreadyProcessed(Extracted[el.href].tweet_id, seen)

\* Lines 207-211: the loop goes on; query_selector_all returns a list of
\* elements, of any length, or raises (it is outside the per-element try).
\* The list is not stored: the for loop meets its elements one at a time, and
\* at each point the list may be exhausted.
QueryElements ==
    /\ pc = "while"
    /\ LoopCondition(tweets_data, scroll_attempts, max_tweets)
    /\ \/ /\ pc' = "for"
          /\ UNCHANGED <<collectVars, persistVars, excVars, saveLog>>
       \/ RaiseInTry("Exception")
    /\ UNCHANGED <<schedVars, browserVars, store, lastOutcome,
                   completed_runs, anchor_href>>

\* Lines 207, 301: the while condition is false and the loop is left.
LoopExit ==
    /\ pc = "while"
    /\ ~LoopCondition(tweets_data, scroll_attempts, max_tweets)
    /\ pc' = "return"
    /\ UNCHANGED <<schedVars, browserVars, collectVars, persistVars, excVars,
                   store, saveLog, lastOutcome,
                   completed_runs, anchor_href>>

\* Line 302 and scrape_and_save line 311: tweets_data is returned as tweets.
ReturnTweets ==
    /\ pc = "return"
    /\ pc' = "persist"
    /\ DiscardCollectLocals
    /\ UNCHANGED <<schedVars, browserVars, tweets_data, persistVars, excVars,
                   store, saveLog, lastOutcome,
                   completed_runs, anchor_href>>

\* Lines 213-263: the next element of the query, whatever the page rendered
\* there.
ProcessElement ==
    /\ pc = "for"
    /\ ~ForBreak(tweets_data, max_tweets)
    /\ \E el \in Elements :
          LET r == ProcessOne(tweets_data, processed_tweet_ids, el)
          IN  /\ tweets_data' = r.td
              /\ processed_tweet_ids' = r.seen
              /\ rendered' = IF Extractable(el)
                             THEN rendered \cup {Extracted[el.href].tweet_id}
                             ELSE rendered
              /\ dupSeen' = (dupSeen \/ SkippedAsSeen(processed_tweet_ids, el))
    /\ UNCHANGED <<schedVars, pc, browserVars, scroll_attempts, scrollCalls,
                   scrollsAfterTarget, persistVars, excVars, store, saveLog, lastOutcome,
                   completed_runs, anchor_href>>

\* Lines 266-292: the for loop is over (the list is exhausted, or line 214
\* broke out of it) and the scroll guard holds: the
\* viewport is scrolled by an amount of the band drawn, and with it perhaps
\* scrolled back.  page.evaluate may raise before anything is scrolled.
ScrollDown ==
    /\ pc = "for"
    /\ ShouldScroll(tweets_data, max_tweets)
    /\ \/ \E pattern \in {"small", "medium", "large"}, scrollBack \in BOOLEAN :
             /\ scrollCalls' = scrollCalls + 1
             /\ scrollsAfterTarget' =
                    IF Len(tweets_data) >= max_tweets
                    THEN scrollsAfterTarget + 1 ELSE scrollsAfterTarget
             /\ pc' = "reading"
             /\ UNCHANGED <<tweets_data, processed_tweet_ids, scroll_attempts,
                            rendered, dupSeen, persistVars, excVars, saveLog>>
       \/ RaiseInTry("Exception")
    /\ UNCHANGED <<schedVars, browserVars, store, lastOutcome,
                   completed_runs, anchor_href>>

\* Mutant of IncrementAttempts: the attempt is not counted.
IncrementAttempts_Never(attempts) == attempts

\* Line 299: scroll_attempts += 1
IncrementAttempts(attempts) == attempts + 1

\* Lines 296-299: the reading wait is over and the attempt is counted.
CountAttempt ==
    /\ pc = "reading"
    /\ scroll_attempts' = IncrementAttempts(scroll_attempts)
    /\ pc' = "while"
    /\ UNCHANGED <<schedVars, browserVars, tweets_data, processed_tweet_ids,
                   rendered, dupSeen, scrollCalls, scrollsAfterTarget,
                   persistVars, excVars, store, saveLog, lastOutcome,
                   completed_runs, anchor_href>>

\* Line 266 false: no scroll, back to the while test.
NoScroll ==
    /\ pc = "for"
    /\ ~ShouldScroll(tweets_data, max_tweets)
    /\ pc' = "while"
    /\ UNCHANGED <<schedVars, browserVars, tweets_data, processed_tweet_ids,
                   scroll_attempts, rendered, dupSeen, scrollCalls, scrollsAfterTarget,
                   persistVars, excVars, store, saveLog, lastOutcome,
                   completed_runs, anchor_href>>

\* ------------------------------------------------------- persistence phase

\* Mutant of save_tweet_except: a failed insert is re-raised to the caller.
save_tweet_except_Reraise(branch) == branch = "failed"

\* save_tweet lines 80-86: whether the exception of the insert leaves
\* save_tweet.  The handler catches every Exception and returns False.
save_tweet_except(branch) == FALSE

\* Lines 318-332: one iteration of the save loop.
SaveNext ==
    /\ pc = "persist"
    /\ saveIdx < Len(tweets_data)
    /\ \E queryFails \in BOOLEAN, writeFails \in BOOLEAN :
          LET r == save_tweet(store, tweets_data[saveIdx + 1].tweet_id,
                              queryFails, writeFails)
          IN  /\ store' = r.store
              /\ IF save_tweet_except(r.branch)
                 THEN RaiseInTry("Exception")
                 ELSE /\ saved_count' = IF r.ret THEN saved_count + 1 ELSE saved_count
                      /\ skipped_count' = IF r.ret THEN skipped_count
                                          ELSE skipped_count + 1
                      /\ saveLog' = Append(saveLog, LogEntry(r))
                      /\ saveIdx' = saveIdx + 1
                      /\ UNCHANGED <<pc, collectVars, result, excVars>>
    /\ UNCHANGED <<schedVars, browserVars, lastOutcome,
                   completed_runs, anchor_href>>

\* Lines 334-348: the loop is over; the result is built and returned.
BuildResult ==
    /\ pc = "persist"
    /\ saveIdx = Len(tweets_data)
    /\ result' = <<[total_collected |-> Len(tweets_data),
                    saved |-> saved_count,
                    skipped_duplicates |-> skipped_count,
                    tweets |-> tweets_data]>>
    /\ pc' = "finally"
    /\ UNCHANGED <<schedVars, browserVars, collectVars, saveIdx, saved_count,
                   skipped_count, excVars, store, saveLog, lastOutcome,
                   completed_runs, anchor_href>>

\* ------------------------------------------------------- the finally block

\* Lines 354-356: if self.context: self.context.close()
close_context(ctx) == IF ctx = "open" THEN "closed" ELSE ctx

\* Mutant of stop_playwright: stop() nested under `if self.context`.
stop_playwright_OnlyWithContext(ctx, pw) ==
    IF ctx = "open" /\ pw = "started" THEN "stopped" ELSE pw

\* Lines 357-358: if self.playwright: self.playwright.stop()
stop_playwright(ctx, pw) == IF pw = "started" THEN "stopped" ELSE pw

\* Lines 353-358 run to their end; what was in flight stays in flight.
Cleanup ==
    /\ pc = "finally"
    /\ context' = close_context(context)
    /\ playwright' = stop_playwright(context, playwright)
    /\ pc' = "exit"
    /\ UNCHANGED <<schedVars, collectVars, persistVars, excVars, store, saveLog, lastOutcome,
                   completed_runs, anchor_href>>

\* Ctrl+C inside the finally block: the KeyboardInterrupt replaces what was in
\* flight; close() or stop() may or may not have taken effect, and stop() is
\* not reached when close() is the call interrupted.
CleanupInterrupt ==
    /\ pc = "finally"
    /\ \E c \in {context, close_context(context)} :
          /\ context' = c
          /\ playwright' \in (IF c = "open"
                              THEN {playwright}
                              ELSE {playwright, stop_playwright(c, playwright)})
    /\ exc' = "KeyboardInterrupt"
    /\ cleanupInterrupted' = TRUE
    /\ pc' = "exit"
    /\ UNCHANGED <<schedVars, collectVars, persistVars, raised, store, saveLog, lastOutcome,
                   completed_runs, anchor_href>>

\* scrape_and_save is left: run_once logs the result or the error (scheduler.py
\* lines 50-66), run_scraper.main prints the result (lines 17-31).  The run's
\* locals die with it.
RunReturn ==
    /\ pc = "exit"
    /\ lastOutcome' = RunOutcome(exc)
    /\ pc' = AfterRun(mode, exc)
    /\ completed_runs' = IF RunOnceReturns(mode, exc)
                         THEN completed_runs + 1 ELSE completed_runs
    /\ tweets_data' = << >>
    /\ processed_tweet_ids' = {}
    /\ scroll_attempts' = 0
    /\ rendered' = {}
    /\ dupSeen' = FALSE
    /\ scrollCalls' = 0
    /\ scrollsAfterTarget' = 0
    /\ saveIdx' = 0
    /\ saved_count' = 0
    /\ skipped_count' = 0
    /\ result' = << >>
    /\ exc' = "none"
    /\ raised' = "none"
    /\ saveLog' = << >>
    /\ UNCHANGED <<schedVars, browserVars, cleanupInterrupted, store, anchor_href>>

\* ------------------------------------------------------------ specification

Next ==
    \/ StopAtMaxRuns
    \/ RunOnceBegin
    \/ MainBegin
    \/ Construct
    \/ ComputeDelay
    \/ Sleep
    \/ InterruptOutsideRun
    \/ SetupBrowser
    \/ Navigate
    \/ InterruptInTry
    \/ QueryElements
    \/ LoopExit
    \/ ReturnTweets
    \/ ProcessElement
    \/ ScrollDown
    \/ CountAttempt
    \/ NoScroll
    \/ SaveNext
    \/ BuildResult
    \/ Cleanup
    \/ CleanupInterrupt
    \/ RunReturn

Spec == Init /\ [][Next]_vars

\* ------------------------------------------- the gateway specification

\* The gateway on its own: save_tweet called with any identifier, any number
\* of times up to MaxCalls, by whatever process holds the store.  The gateway
\* keeps nothing in memory between calls, so a process restart between two
\* calls changes nothing it reads.
GatewayInit ==
    /\ mode = "single"
    /\ max_runs = << >>
    /\ max_tweets = 0
    /\ base_interval = DefaultIntervalMinutes * 60
    /\ run_count = 0
    /\ interval = 0
    /\ pc = "gateway"
    /\ store = EmptyStore
    /\ lastOutcome = "none"
    /\ completed_runs = 0
    /\ anchor_href = << >>
    /\ InitRun

\* Lines 61-86, one call.
GatewaySave ==
    /\ pc = "gateway"
    /\ Len(saveLog) < MaxCalls
    /\ \E tweet_id \in TweetIds, queryFails \in BOOLEAN, writeFails \in BOOLEAN :
          LET r == save_tweet(store, tweet_id, queryFails, writeFails)
          IN  /\ store' = r.store
              /\ saveLog' = Append(saveLog, LogEntry(r))
    /\ UNCHANGED <<schedVars, pc, browserVars, collectVars, persistVars, excVars,
                   lastOutcome,
                   completed_runs, anchor_href>>

GatewayNext == GatewaySave

SpecGateway == GatewayInit /\ [][GatewayNext]_vars

\* ------------------------------------------ the extraction specification

\* Path segments of the hrefs: two handles, the 'web' of /i/web/status/ links,
\* the marker word and an identifier.
SegTok == {"alice", "i", "web", "status", "12345"}

\* The paths of n segments, each preceded by its '/'.
RECURSIVE Paths(_)
Paths(n) ==
    IF n = 0 THEN {<< >>}
    ELSE {p \o <<"/", t>> : p \in Paths(n - 1), t \in SegTok}

\* Nothing (a relative href), the canonical host, the legacy host, another host.
HostPrefixes ==
    {<< >>} \cup {<<"https:", "/", "/", host>> : host \in {"x.com", "twitter.com", "nitter.net"}}

\* What follows the path: nothing, a trailing '/', a query string.
Tails == {<< >>, <<"/">>, <<"?", "foo=bar">>}

\* The hrefs the extraction step is applied to.
Urls ==
    {h \o p \o t : h \in HostPrefixes,
                   p \in UNION {Paths(n) : n \in 0..MaxSegments},
                   t \in Tails}

\* Lines 221-255 on one anchor with href h, readable text and nothing
\* collected before: the record list afterwards.
ProcessAnchor(h) ==
    LET e == ExtractFrom(h)
    IN  IF Falsy(e.tweet_id) THEN << >>
        ELSE <<[tweet_id |-> e.tweet_id, content |-> <<"text">>,
                author |-> e.author, url |-> e.url]>>

\* The extraction step on its own, on any href.
ExtractInit ==
    /\ mode = "single"
    /\ max_runs = << >>
    /\ max_tweets = 1
    /\ base_interval = DefaultIntervalMinutes * 60
    /\ run_count = 0
    /\ interval = 0
    /\ pc = "anchor"
    /\ store = EmptyStore
    /\ lastOutcome = "none"
    /\ completed_runs = 0
    /\ anchor_href \in Urls
    /\ InitRun

ExtractAnchor ==
    /\ pc = "anchor"
    /\ tweets_data' = ProcessAnchor(anchor_href)
    /\ processed_tweet_ids' = {tweets_data'[i].tweet_id : i \in 1..Len(tweets_data')}
    /\ pc' = "extracted"
    /\ UNCHANGED <<schedVars, browserVars, scroll_attempts, rendered, dupSeen,
                   scrollCalls, scrollsAfterTarget, persistVars, excVars, store,
                   saveLog, lastOutcome, completed_runs, anchor_href>>

ExtractNext == ExtractAnchor

SpecExtract == ExtractInit /\ [][ExtractNext]_vars

\* ------------------------------------------------ the delay specification

\* The delay and the sleep that follow a run, for every base interval
\* ScraperScheduler.__init__ (line 23) can be given: minutes * 60.
DelayInit ==
    /\ mode = "scheduler"
    /\ max_runs = << >>
    /\ max_tweets = 1
    /\ base_interval \in {minutes * 60 : minutes \in 0..MaxIntervalMinutes}
    /\ run_count = 1
    /\ interval = 0
    /\ pc = "delay"
    /\ store = EmptyStore
    /\ lastOutcome = "ok"
    /\ completed_runs = 1
    /\ anchor_href = << >>
    /\ InitRun

DelayNext == ComputeDelay \/ Sleep

SpecDelay == DelayInit /\ [][DelayNext]_vars

\* ------------------------------------------- the collection specification

\* collect_tweets on its own, from its loop head, the browser being open, for
\* every max_tweets and every page.
CollectInit ==
    /\ mode = "single"
    /\ max_runs = << >>
    /\ max_tweets \in 0..MaxTweets
    /\ base_interval = DefaultIntervalMinutes * 60
    /\ run_count = 0
    /\ interval = 0
    /\ pc = "while"
    /\ playwright = "started"
    /\ context = "open"
    /\ tweets_data = << >>
    /\ processed_tweet_ids = {}
    /\ scroll_attempts = 0
    /\ rendered = {}
    /\ dupSeen = FALSE
    /\ scrollCalls = 0
    /\ scrollsAfterTarget = 0
    /\ saveIdx = 0
    /\ saved_count = 0
    /\ skipped_count = 0
    /\ result = << >>
    /\ exc = "none"
    /\ raised = "none"
    /\ cleanupInterrupted = FALSE
    /\ saveLog = << >>
    /\ store = EmptyStore
    /\ lastOutcome = "none"
    /\ completed_runs = 0
    /\ anchor_href = << >>

CollectNext ==
    \/ QueryElements
    \/ ProcessElement
    \/ ScrollDown
    \/ CountAttempt
    \/ NoScroll
    \/ LoopExit

\* The thread takes its next step: every call of the loop returns or raises,
\* and the list query_selector_all returned is finite, so the for loop over
\* it comes to its end.
CollectFairness ==
    /\ WF_vars(QueryElements)
    /\ WF_vars(ScrollDown \/ NoScroll)
    /\ WF_vars(CountAttempt)
    /\ WF_vars(LoopExit)

SpecCollect == CollectInit /\ [][CollectNext]_vars /\ CollectFairness

\* ================================================================== claims

InCollection == pc \in {"while", "for", "reading", "return"}

\* C1: collect_tweets never holds or returns more than max_tweets records, and
\* neither the scroll-attempt counter nor the number of scrolls issued ever
\* exceeds max_scroll_attempts (20).
C1_BoundedCollection ==
    /\ Len(tweets_data) <= max_tweets
    /\ scroll_attempts <= max_scroll_attempts
    /\ scrollCalls <= max_scroll_attempts
    /\ result # << >> => /\ Len(result[1].tweets) <= max_tweets
                         /\ result[1].total_collected <= max_tweets

\* C1 witness: the loop was left at the scroll ceiling, short of max_tweets.
C1_Witness ==
    /\ pc = "return"
    /\ scroll_attempts = max_scroll_attempts
    /\ scrollCalls = max_scroll_attempts
    /\ Len(tweets_data) < max_tweets
    /\ Len(tweets_data) > 0

NoRepeatedId(td) ==
    \A i \in 1..Len(td), j \in 1..Len(td) : i # j => td[i].tweet_id # td[j].tweet_id

\* C2: no post identifier appears twice in the record list, while it is
\* accumulated and when it is returned.
C2_NoRepeatedId ==
    /\ NoRepeatedId(tweets_data)
    /\ result # << >> => NoRepeatedId(result[1].tweets)

\* C2 witness: a list of two records is returned from a collection in which
\* an element was skipped because its identifier had been processed.
C2_Witness ==
    /\ pc = "return"
    /\ dupSeen
    /\ Len(tweets_data) = 2
    /\ scrollCalls > 0

Skipped(entry) == entry.branch \in {"skip_precheck", "skip_unique"}

\* C3: two save_tweet calls in a row with the same identifier, absent from
\* the store before the first and with no write failing, give Saved (True)
\* and then SkippedDuplicate (False), and the store holds exactly one row
\* with that identifier.
C3_SaveTwice ==
    \A i \in 1..(Len(saveLog) - 1) :
        LET a == saveLog[i]
            b == saveLog[i + 1]
        IN  (/\ a.tweet_id = b.tweet_id
             /\ a.rowsBefore = 0
             /\ a.branch # "failed"
             /\ b.branch # "failed")
            => /\ a.branch = "saved" /\ a.ret
               /\ Skipped(b) /\ ~b.ret
               /\ store[a.tweet_id] = 1

\* C3 witness: the second of two such calls could not check for existence and
\* was refused by the uniqueness constraint.
C3_Witness ==
    /\ pc = "gateway"
    /\ Len(saveLog) = 2
    /\ saveLog[1].tweet_id = saveLog[2].tweet_id
    /\ saveLog[1].branch = "saved"
    /\ saveLog[2].queryFailed
    /\ saveLog[2].branch = "skip_unique"
    /\ store[saveLog[1].tweet_id] = 1

\* C4: the store never holds more than one row for an identifier.
C4_AtMostOneRow == \A t \in TweetIds : store[t] <= 1

\* C4 witness: an insert was attempted for an identifier already stored,
\* because the existence check had failed, and one row is held.
C4_Witness ==
    /\ pc = "gateway"
    /\ \E i \in 1..Len(saveLog) :
          /\ saveLog[i].queryFailed
          /\ saveLog[i].rowsBefore = 1
          /\ saveLog[i].attempted
          /\ store[saveLog[i].tweet_id] = 1

\* C5: a save_tweet call whose existence check failed is not answered as a
\* duplicate by the check: the insert is attempted for that record.
C5_DegradeToInsert ==
    /\ \A i \in 1..Len(saveLog) :
          saveLog[i].queryFailed =>
              saveLog[i].attempted /\ saveLog[i].branch # "skip_precheck"
    /\ (result # << >> /\ \A i \in 1..Len(saveLog) : saveLog[i].queryFailed)
          => /\ Len(saveLog) = result[1].total_collected
             /\ \A i \in 1..Len(saveLog) :
                   /\ saveLog[i].attempted
                   /\ saveLog[i].tweet_id = result[1].tweets[i].tweet_id

\* C5 witness: a run that collected two records, every existence check of
\* which failed, returns after attempting both inserts.
C5_Witness ==
    /\ pc = "exit"
    /\ result # << >>
    /\ Len(saveLog) = 2
    /\ \A i \in 1..2 : saveLog[i].queryFailed /\ saveLog[i].attempted

\* C6: a collection that iterated at least max_tweets distinct extractable
\* posts returns exactly max_tweets records, and no scroll is issued once
\* max_tweets records are held.
C6_TargetReached ==
    /\ (pc = "return" /\ Cardinality(rendered) >= max_tweets)
          => Len(tweets_data) = max_tweets
    /\ scrollsAfterTarget = 0

RunActive ==
    pc \in {"construct", "setup", "navigate", "while", "for", "reading",
            "return", "persist", "finally"}

Released == context # "open" /\ playwright # "started"

\* C7: once scrape_and_save is left, by return or by an exception raised in
\* its try body, the context is closed and the driver stopped (nothing having
\* interrupted the finally block itself).
C7_SessionReleased ==
    (~RunActive /\ ~cleanupInterrupted) => Released

\* C7 witness: the launch of the context failed after the driver had started;
\* scrape_and_save is left with the driver stopped.
C7_Witness ==
    /\ pc = "exit"
    /\ raised = "Exception"
    /\ context = "none"
    /\ playwright = "stopped"

\* C8: when scrape_and_save is left after an exception was raised in its try
\* body, an exception is in flight to the caller (the one raised, unless the
\* finally block was itself interrupted), no result is returned, and the
\* cleanup has run.
C8_ExceptionPropagates ==
    (pc = "exit" /\ raised # "none")
        => /\ exc # "none"
           /\ result = << >>
           /\ ~cleanupInterrupted => (exc = raised /\ Released)

\* C8 witness: an Exception raised with the browser open reaches the caller
\* with the context closed and the driver stopped.
C8_Witness ==
    /\ pc = "exit"
    /\ raised = "Exception"
    /\ exc = "Exception"
    /\ context = "closed"
    /\ playwright = "stopped"

\* C9: under the scheduler a run that ended in an Exception is followed by the
\* delay, the sleep and, unless max_runs is reached, the next run; only an
\* interrupt leads elsewhere, and the process never crashes.
C9_FailedRunContinues ==
    [][mode = "scheduler" =>
        /\ pc' # "crashed"
        /\ (pc = "exit" /\ exc = "Exception")
              => (pc' = "delay" /\ lastOutcome' = "failed")
        /\ (pc = "delay" /\ lastOutcome = "failed")
              => pc' \in {"sleep", "shutdown"}
        /\ (pc = "sleep" /\ lastOutcome = "failed")
              => pc' \in {"start", "shutdown"}
        /\ (pc = "start" /\ lastOutcome = "failed" /\ ~MaxRunsReached)
              => (pc' = "construct" /\ run_count' = run_count + 1)
      ]_vars

\* C9 witness: after a failed run the scheduler has slept and is back at the
\* head of its loop with runs left.
C9_Witness ==
    /\ mode = "scheduler"
    /\ pc = "start"
    /\ lastOutcome = "failed"
    /\ ~MaxRunsReached
    /\ run_count < MaxRunCount

\* C10: a failure of the scraper's construction (init_supabase raises) ends
\* the process with the error, in both entry points.
C10_SetupFailureFatal ==
    lastOutcome = "setup_failed" => pc = "crashed"

\* C11: with max_runs set to N the scheduler never counts more than N runs.
C11_MaxRunsBound ==
    max_runs # << >> => run_count <= max_runs[1]

\* C12: every step of the persistence phase either calls save_tweet for the
\* next collected record, in collection order, whatever the earlier outcomes
\* were, or (all records done) builds the result; only an interrupt leaves the
\* loop early.
C12_BatchNotAborted ==
    [][pc = "persist" =>
        /\ Len(saveLog) = saveIdx
        /\ \/ /\ saveIdx < Len(tweets_data)
              /\ pc' = "persist"
              /\ tweets_data' = tweets_data
              /\ saveIdx' = saveIdx + 1
              /\ Len(saveLog') = saveIdx + 1
              /\ SubSeq(saveLog', 1, saveIdx) = saveLog
              /\ saveLog'[saveIdx + 1].tweet_id = tweets_data[saveIdx + 1].tweet_id
           \/ /\ saveIdx = Len(tweets_data)
              /\ pc' = "finally"
              /\ exc' = "none"
              /\ result' # << >>
              /\ result'[1].tweets = tweets_data
           \/ raised' = "KeyboardInterrupt"
      ]_vars

\* C12 witness: the insert of the first record failed with a store error and
\* save_tweet was called for the second record all the same.
C12_Witness ==
    /\ pc = "persist"
    /\ Len(tweets_data) = 2
    /\ Len(saveLog) = 2
    /\ saveLog[1].branch = "failed"
    /\ saveLog[2].tweet_id = tweets_data[2].tweet_id

\* C13: the skipped-duplicate count of a run's result is the number of records
\* whose save_tweet call ended as a duplicate (pre-check hit or uniqueness
\* violation); records whose insert failed otherwise are not counted in it.
C13_DuplicatesNotFailures ==
    result # << >> =>
        result[1].skipped_duplicates =
            Cardinality({i \in 1..Len(saveLog) : Skipped(saveLog[i])})

\* C14: runs are strictly serialized.  A run is counted and started only from
\* the head of the loop, with no context open and no driver started; the head
\* of the loop is reached again only from the sleep, the sleep only from the
\* delay computation, and that only from a run that has ended with its session
\* released; a context is opened and a driver started only inside the run in
\* progress.
C14_RunsSerialized ==
    [][/\ (run_count' # run_count)
            => /\ pc = "start" /\ pc' = "construct"
               /\ run_count' = run_count + 1
               /\ Released
       /\ (pc' = "start" /\ pc # "start") => pc = "sleep"
       /\ (pc' = "sleep" /\ pc # "sleep") => pc = "delay"
       /\ (pc' = "delay" /\ pc # "delay")
            => (pc \in {"exit", "construct"} /\ Released')
       /\ (context' = "open" /\ context # "open") => pc = "setup"
       /\ (playwright' = "started" /\ playwright # "started") => pc = "setup"
      ]_vars

\* C14 witness: the second run of the scheduler holds its own open session.
C14_Witness ==
    /\ mode = "scheduler"
    /\ run_count = 2
    /\ completed_runs = 1
    /\ pc = "navigate"
    /\ context = "open"

\* C15: when the scheduler stops, at max_runs or on an interrupt, the run_count
\* it reports is the number of runs that have completed.
C15_CountsCompletedRuns ==
    pc \in {"stopped", "shutdown"} => run_count = completed_runs

\* C16: the scheduler never reaches its shutdown after an interrupt with a
\* browser context still open or the automation driver still started.
C16_InterruptReleasesSession ==
    pc = "shutdown" => Released

\* C17: the sleep ends either by returning, at the head of the loop, or by an
\* interrupt, which takes the scheduler straight to its shutdown: no run is
\* counted or started, nothing else changes, and from the shutdown no further
\* step is taken.  It is not an error exit.
C17_InterruptDuringSleep ==
    [][/\ (pc = "sleep") => pc' \in {"start", "shutdown"}
       /\ (pc = "sleep" /\ pc' = "shutdown")
            => UNCHANGED <<schedVars, browserVars, store, completed_runs, lastOutcome>>
       /\ (pc = "shutdown") => UNCHANGED vars
      ]_vars

\* C17 witness: the scheduler has shut down out of a sleep of the interval
\* drawn after its first run.
C17_Witness ==
    /\ pc = "shutdown"
    /\ interval # 0
    /\ run_count = 1
    /\ completed_runs = 1

\* '/status/' occurs in url at token p.
MarkerAt(url, p) ==
    /\ p + 2 <= Len(url)
    /\ url[p] = "/" /\ url[p + 1] = "status" /\ url[p + 2] = "/"

\* The token that follows the marker at p, up to the next '/' or '?': empty
\* when the url ends there or a separator follows at once.
TokenAfter(url, p) ==
    IF p + 3 <= Len(url) /\ url[p + 3] \notin {"/", "?"}
    THEN <<url[p + 3]>> ELSE << >>

\* C18: extract_tweet_id_from_url gives None when the url holds no '/status/',
\* and otherwise the token that follows a '/status/' of the url, cut at the
\* next '/' or '?'; the anchor is collected, with that identifier, exactly when
\* the identifier is usable (neither None nor empty).
C18_IdFollowsMarker ==
    LET url == AbsoluteUrl(anchor_href)
        tweet_id == extract_tweet_id_from_url(url)
        markers == {p \in 1..Len(url) : MarkerAt(url, p)}
    IN  /\ markers = {} => tweet_id = None
        /\ markers # {} => \E p \in markers : tweet_id = TokenAfter(url, p)
        /\ pc = "extracted" =>
              IF Falsy(tweet_id) THEN tweets_data = << >>
              ELSE /\ Len(tweets_data) = 1
                   /\ tweets_data[1].tweet_id = tweet_id
                   /\ tweets_data[1].url = url

\* C18 witness: https://x.com/alice/status/12345?foo=bar was collected with
\* the identifier 12345.
C18_Witness ==
    /\ pc = "extracted"
    /\ anchor_href = <<"https:", "/", "/", "x.com", "/", "alice", "/", "status", "/",
                       "12345", "?", "foo=bar">>
    /\ Len(tweets_data) = 1
    /\ tweets_data[1].tweet_id = <<"12345">>

\* The url is absolute and its host is one of the two known hosts.
HostKnown(url) ==
    /\ Len(url) >= 4
    /\ url[1] \in {"https:", "http:"}
    /\ url[4] \in {"x.com", "twitter.com"}

\* C19: for a url of a known host with '/status/' after at least one path
\* segment, the author is the segment immediately preceding a '/status/'; the
\* record collected carries the author extracted.
C19_AuthorPrecedesMarker ==
    LET url == AbsoluteUrl(anchor_href)
        author == extract_author_from_url(url)
        markers == {p \in 6..Len(url) : MarkerAt(url, p)}
    IN  /\ (HostKnown(url) /\ markers # {})
              => \E p \in markers : author = <<url[p - 1]>>
        /\ (pc = "extracted" /\ tweets_data # << >>)
              => tweets_data[1].author = author

\* C20: the interval get_random_interval returned, which is the value
\* time.sleep is called with, lies within [0.8 base, 1.2 base].
C20_IntervalInBand ==
    pc = "sleep" =>
        /\ 10 * interval >= 8 * base_interval
        /\ 10 * interval <= 12 * base_interval

\* C20 witness: with a base of one minute the scheduler sleeps the upper end
\* of the band, 72 seconds.
C20_Witness ==
    /\ pc = "sleep"
    /\ base_interval = 60
    /\ interval = 72

\* C21: collect_tweets leaves its loop in every behaviour, whatever the page
\* renders; it reaches its return only with a bound hit and no exception in
\* flight; a cycle goes back to the loop head without a scroll only when
\* max_tweets records are held, and every scroll is followed by the increment
\* of the scroll-attempt counter.
C21_CollectionTerminates ==
    /\ <>(pc \in {"return", "finally"})
    /\ [](pc = "return" =>
            /\ exc = "none" /\ raised = "none"
            /\ \/ Len(tweets_data) >= max_tweets
               \/ scroll_attempts >= max_scroll_attempts)
    /\ [][/\ (pc = "for" /\ pc' = "while") => Len(tweets_data) >= max_tweets
          /\ (pc = "for" /\ Len(tweets_data) < max_tweets /\ pc' # "for")
                => pc' \in {"reading", "finally"}
          /\ (pc = "reading")
                => (pc' = "while" /\ scroll_attempts' = scroll_attempts + 1)
         ]_vars

\* C21 witness: the page never rendered a post; the loop was left at the
\* scroll ceiling and the empty list is returned without an exception.
C21_Witness ==
    /\ pc = "return"
    /\ max_tweets > 0
    /\ tweets_data = << >>
    /\ rendered = {}
    /\ scroll_attempts = max_scroll_attempts
    /\ exc = "none"

\* The identifiers of the records accumulated so far.
CollectedIds(td) == {td[i].tweet_id : i \in 1..Len(td)}

\* C22: in the collection loop the seen set is the set of identifiers of the
\* accumulated records.
C22_SeenEqualsCollected ==
    InCollection => processed_tweet_ids = CollectedIds(tweets_data)

\* The number of save_tweet calls of the run that added a row to the store.
RowsWritten(log) ==
    Cardinality({i \in 1..Len(log) : log[i].rowsAfter > log[i].rowsBefore})

\* C23: in every result scrape_and_save returns, saved + skipped_duplicates =
\* total_collected = the length of the record list, and saved is the number
\* of rows the run added to the store.
C23_ResultTotals ==
    result # << >> =>
        /\ result[1].saved + result[1].skipped_duplicates = result[1].total_collected
        /\ result[1].total_collected = Len(result[1].tweets)
        /\ result[1].saved = RowsWritten(saveLog)

\* C23 witness: a result for two records, one written and one whose insert
\* failed with a store error.
C23_Witness ==
    /\ pc = "exit"
    /\ result # << >>
    /\ result[1].total_collected = 2
    /\ result[1].saved = 1
    /\ \E i \in 1..2 : saveLog[i].branch = "failed"

====
